---- MODULE Spec2Model ----
(***************************************************************************)
(* Model of the dock plugin manager (src/src/lib.rs): library resolution,  *)
(* the load / unload lifecycle of PluginLibrary records, the destructor of *)
(* a record, and the bookkeeping of the filesystem watcher.                *)
(*                                                                         *)
(* A path is a sequence of components, a component a sequence of           *)
(* characters; "/o/liba.so" is << <<"o">>, <<"l","i","b","a",".","s","o">> >>.*)
(***************************************************************************)
EXTENDS Integers, Sequences, FiniteSets, TLC

VARIABLES
    plugins,          \* PluginManager.plugins : Vec<PluginLibrary>
    watcher,          \* PluginManager.watcher : Option<INotifyWatcher> (TRUE = Some)
    watched,          \* the paths registered inside the INotifyWatcher
    watching,         \* PluginManager.watching : Vec<(String, PathBuf)>
    dropped,          \* TRUE once the PluginManager value itself was dropped
    ld_library_path,  \* environment: LD_LIBRARY_PATH split on ":"
    fs,               \* environment: what is at each candidate file path
    ldconfig,         \* environment: the lines printed by `ldconfig -p`
    nextId,           \* identity of the next plugin instance _plugin_create returns
    hist,             \* hist[id]: every call made on / drop of instance id, in order
    trace,            \* the events of the most recent manager operation, in order
    last,             \* the most recent manager operation, its argument and result
    ctl,              \* where the control thread is: idle, or inside a call that waits
    receiver,         \* the Option<Receiver> new() returned (TRUE = Some)
    chan,             \* the messages queued in the mpsc channel
    parked,           \* the channel has parked the Sender's task
    cb,               \* the watcher's thread: idle, or blocked inside the callback
    reported,         \* every event the watcher passed to the callback, in order
    received          \* every event the consumer took from the Receiver, in order

vars == <<plugins, watcher, watched, watching, dropped, ld_library_path, fs,
          ldconfig, nextId, hist, trace, last, ctl, receiver, chan, parked, cb,
          reported, received>>

envVars == <<ld_library_path, fs, ldconfig>>

evVars == <<receiver, chan, parked, cb, reported, received>>

\* Number of plugin instances constructed in one behaviour.
MaxLoads == 3

\* Number of plugin instances constructed in one behaviour in which the
\* watcher's thread runs as well.
MaxLoadsWatched == 2

\* Number of filesystem events reported in one behaviour.
MaxEvents == 3

\* The buffer of the channel, channel(100) in async_watcher, scaled down so
\* that the channel fills up within MaxEvents events.
ChannelBuffer == 1

-----------------------------------------------------------------------------
(* Names, paths and the environment the resolver reads.                    *)

NameA == <<"a">>
NameB == <<"b">>
NameX == <<"x", "l", "i", "b", "a">>
NameC == <<"c">>
Names == {NameA, NameB, NameX, NameC}

DirO == << <<"o">> >>
DirU == << <<"u">> >>

\* libloading::library_filename on Linux: "lib" + name + ".so"
library_filename(lib_name) == <<"l", "i", "b">> \o lib_name \o <<".", "s", "o">>

\* PathBuf::push of a relative file name
push(path, filename) == Append(path, filename)

\* Path::parent
parent(path) == SubSeq(path, 1, Len(path) - 1)

FileOA == push(DirO, library_filename(NameA))
FileOB == push(DirO, library_filename(NameB))
FileUX == push(DirU, library_filename(NameX))
FileUB == push(DirU, library_filename(NameB))
Files == {FileOA, FileOB, FileUX, FileUB}

\* What a candidate file is: a conforming plugin (whose _applet and
\* _css_provider return an object or null), a shared object without the
\* _plugin_create symbol, a file dlopen rejects, or nothing at all.
PluginKinds == {"plugin", "plugin_null_applet", "plugin_null_css", "plugin_null_both"}
FileKinds == PluginKinds \cup {"nosym", "corrupt", "absent"}

\* Library::new succeeds on a file of this kind
opens(kind) == kind \notin {"absent", "corrupt"}

\* lib.get(b"_plugin_create") succeeds on a library of this kind
has_constructor(kind) == kind \in PluginKinds

\* plugin._applet() / plugin._css_provider() return a null pointer
applet_is_null(kind) == kind \in {"plugin_null_applet", "plugin_null_both"}
css_is_null(kind) == kind \in {"plugin_null_css", "plugin_null_both"}

\* What plugin._applet() / plugin._css_provider() return from a library of
\* this kind: a pointer to an object the plugin made, or null.
plugin_applet(kind) == IF applet_is_null(kind) THEN "null" ELSE "plugin"
plugin_css_provider(kind) == IF css_is_null(kind) THEN "null" ELSE "plugin"

\* A variant of applet_or_default without the null check.
applet_unchecked(ptr) == ptr

\* The applet stored in the record: the plugin's, or a new gtk4::Box.
applet_or_default(ptr) == IF ptr # "null" THEN ptr ELSE "default"

\* The css provider stored in the record: the plugin's, or CssProvider::new().
css_provider_or_default(ptr) == IF ptr # "null" THEN ptr ELSE "default"

\* Path::exists
exists(path, files) == path \in DOMAIN files /\ files[path] # "absent"

\* One character of the pattern built at line 276 against one character of
\* the text: the file name is spliced into the regex unescaped, so its "."
\* matches any character.
char_matches(pc, c) == pc = "." \/ pc = c

\* The file-name part of the regex matches text t exactly.
pattern_matches(pat, t) ==
    /\ Len(pat) = Len(t)
    /\ \A i \in 1..Len(pat) : char_matches(pat[i], t[i])

\* The regex is unanchored on the left: "\s*<filename>\s.*=>\s(.+)\s" matches
\* a line whose library column ends with text the file-name pattern matches.
line_matches(filename, line) ==
    \E k \in 1..Len(line.lib) :
        pattern_matches(filename, SubSeq(line.lib, k, Len(line.lib)))

NotFound == [found |-> FALSE, path |-> <<>>]
Found(p) == [found |-> TRUE, path |-> p]

\* The first of the positions in hits, or 0 when there is none: what a loop
\* with an early return, find_map or captures_iter().next() yields.
first_index(hits) ==
    IF hits = {} THEN 0 ELSE CHOOSE i \in hits : \A j \in hits : i <= j

\* get_ld_path
get_ld_path(lib_name, dirs, files, cache) ==
    LET filename == library_filename(lib_name)
        InDir(i) == exists(push(dirs[i], filename), files)
        d == first_index({i \in 1..Len(dirs) : InDir(i)})
        InCache(i) == line_matches(filename, cache[i])
        c == first_index({i \in 1..Len(cache) : InCache(i)})
    IN  IF d # 0 THEN Found(push(dirs[d], filename))
        ELSE IF c # 0 THEN Found(cache[c].path)
        ELSE NotFound

CacheLine(name, path) == [lib |-> library_filename(name), path |-> path]

Fs(oa, ob, ux, ub) ==
    (FileOA :> oa) @@ (FileOB :> ob) @@ (FileUX :> ux) @@ (FileUB :> ub)

\* The environments a behaviour may run in.
\* EnvSearchPath: every name but "c" resolves, "a" and "b" in one directory
\* of the search path, "xliba" through the linker cache.
EnvSearchPath ==
    [ld |-> <<DirO>>,
     fs |-> Fs("plugin", "plugin_null_applet", "plugin_null_css", "absent"),
     cache |-> << CacheLine(NameX, FileUX), CacheLine(NameA, FileOA) >>]
\* EnvCacheOnly: no search path; the cache lists libxliba.so before liba.so,
\* and libb.so lacks the constructor symbol.
EnvCacheOnly ==
    [ld |-> <<>>,
     fs |-> Fs("plugin", "nosym", "plugin", "plugin_null_both"),
     cache |-> << CacheLine(NameX, FileUX), CacheLine(NameA, FileOA),
                  CacheLine(NameB, FileOB) >>]
\* EnvBroken: libb.so cannot be opened and the cache names a missing liba.so.
EnvBroken ==
    [ld |-> <<DirU, DirO>>,
     fs |-> Fs("absent", "corrupt", "plugin", "absent"),
     cache |-> << CacheLine(NameA, FileOA) >>]
\* EnvTwoDirs: libb.so is in both directories of the search path.
EnvTwoDirs ==
    [ld |-> <<DirU, DirO>>,
     fs |-> Fs("plugin", "plugin", "plugin", "plugin_null_both"),
     cache |-> <<>>]

Envs == {EnvSearchPath, EnvCacheOnly, EnvBroken, EnvTwoDirs}

-----------------------------------------------------------------------------
(* Events.                                                                 *)

Ev(e, f, i, p) == [ev |-> e, field |-> f, id |-> i, path |-> p]
Call(e, i) == Ev(e, "", i, <<>>)
DropField(f, i) == Ev("drop", f, i, <<>>)

Op(o, n, p, r) == [op |-> o, name |-> n, path |-> p, result |-> r]

\* Position of the control thread: pc is "idle", "watch" (inside load_plugin,
\* waiting for Watcher::watch to return) or "unwatch" (inside unload_all,
\* waiting for Watcher::unwatch to return).
Ctl(pc, name) == [pc |-> pc, name |-> name]
CtlIdle == Ctl("idle", <<>>)

\* The watcher's thread outside the callback.
CbIdle == [state |-> "idle", ev |-> [dir |-> <<>>, n |-> 0]]

\* INotifyWatcher serves watch and unwatch requests on the thread that also
\* runs the callback: while that thread is inside the callback, a request is
\* not answered and the caller waits.
loop_busy(c) == c.state # "idle"

-----------------------------------------------------------------------------
(* A loaded plugin record and its destructor.                              *)

\* A variant of PluginLibraryFields with the library declared before the
\* objects made from it.
PluginLibraryFieldsLibraryFirst ==
    <<"name", "lib_path", "loaded_library", "plugin", "css_provider", "applet">>

\* struct PluginLibrary: its fields in declaration order, the order in which
\* the compiler's drop glue releases them once Drop::drop has returned.
PluginLibraryFields ==
    <<"name", "lib_path", "plugin", "css_provider", "applet", "loaded_library">>

PluginLibrary(name, lib_path, id, css_provider, applet) ==
    [name |-> name, lib_path |-> lib_path, id |-> id,
     css_provider |-> css_provider, applet |-> applet]

\* The drop(..) calls in the body of Drop::drop, in source order. The
\* destructuring pattern binds every field through `&mut self`, so each call
\* consumes a `&mut` reference: the field itself is not released by it.
ReferenceDrops ==
    <<"applet", "name", "lib_path", "css_provider", "plugin", "loaded_library">>

\* Body of <PluginLibrary as Drop>::drop
drop_body(id) ==
    << Call("on_plugin_unload", id) >>
    \o [i \in 1..Len(ReferenceDrops) |-> Ev("drop_ref", ReferenceDrops[i], id, <<>>)]

\* The drop glue that runs after Drop::drop: every field, in declaration order.
drop_glue(id) ==
    [i \in 1..Len(PluginLibraryFields) |-> DropField(PluginLibraryFields[i], id)]

\* Everything dropping one PluginLibrary value does.
drop_plugin_library(id) == drop_body(id) \o drop_glue(id)

\* A variant of drop_each that drops the records back to front.
RECURSIVE drop_each_reversed(_)
drop_each_reversed(ps) ==
    IF ps = <<>> THEN <<>>
    ELSE drop_each_reversed(Tail(ps)) \o drop_plugin_library(Head(ps).id)

\* Dropping the records ps one after the other, front to back.
RECURSIVE drop_each(_)
drop_each(ps) ==
    IF ps = <<>> THEN <<>>
    ELSE drop_plugin_library(Head(ps).id) \o drop_each(Tail(ps))

Ids(ps) == {ps[i].id : i \in 1..Len(ps)}

\* hist after the records ps were dropped
hist_after_drop(h, ps) ==
    [i \in 1..Len(h) |->
        IF i \in Ids(ps) THEN h[i] \o drop_plugin_library(i) ELSE h[i]]

\* Vec::remove
remove(s, i) == SubSeq(s, 1, i - 1) \o SubSeq(s, i + 1, Len(s))

-----------------------------------------------------------------------------
(* Queries.                                                                *)

\* PluginManager::paths
paths(ps) == [i \in 1..Len(ps) |-> ps[i].lib_path]

\* PluginManager::library_path_to_applet
library_path_to_applet(ps, lib_filename) ==
    LET Hit(i) == ps[i].lib_path = lib_filename
        i == first_index({k \in 1..Len(ps) : Hit(k)})
    IN  IF i = 0 THEN [found |-> FALSE, applet |-> "", id |-> 0]
        ELSE [found |-> TRUE, applet |-> ps[i].applet, id |-> ps[i].id]

\* PluginManager::library_path_to_name
library_path_to_name(w, lib_filename) ==
    LET Hit(i) == w[i][2] = lib_filename
        i == first_index({k \in 1..Len(w) : Hit(k)})
    IN  IF i = 0 THEN [found |-> FALSE, name |-> <<>>]
        ELSE [found |-> TRUE, name |-> w[i][1]]

-----------------------------------------------------------------------------
(* The watcher.                                                            *)

\* Watcher::watch on a path, succeeding
watch(ws, path) == ws \cup {path}

\* Watcher::unwatch: removes the path if it is registered, and is an ignored
\* error (`let _ =`) otherwise.
unwatch(ws, path) == ws \ {path}

\* The loop of unload_all over self.watching.drain(..)
RECURSIVE unwatch_each(_, _)
unwatch_each(ws, w) ==
    IF w = <<>> THEN ws ELSE unwatch_each(unwatch(ws, Head(w)[2]), Tail(w))

unwatch_events(w) == [i \in 1..Len(w) |-> Ev("unwatch", "", 0, w[i][2])]

-----------------------------------------------------------------------------
(* Operations of the manager.                                              *)

\* PluginManager::new: the state after construction, with async_watcher()
\* having succeeded or failed.
Init ==
    /\ plugins = <<>>
    /\ watcher \in BOOLEAN
    /\ watched = {}
    /\ watching = <<>>
    /\ dropped = FALSE
    /\ \E e \in Envs : /\ ld_library_path = e.ld
                       /\ fs = e.fs
                       /\ ldconfig = e.cache
    /\ nextId = 1
    /\ hist = <<>>
    /\ trace = <<>>
    /\ last = Op("new", <<>>, <<>>, IF watcher THEN "watcher" ELSE "no watcher")
    /\ ctl = CtlIdle
    /\ receiver = watcher
    /\ chan = <<>>
    /\ parked = FALSE
    /\ cb = CbIdle
    /\ reported = <<>>
    /\ received = <<>>

\* A variant of plugin_index that compares file names instead of whole paths.
plugin_index_by_file_name(ps, lib_path) ==
    LET Hit(i) == ps[i].lib_path[Len(ps[i].lib_path)] = lib_path[Len(lib_path)]
    IN  first_index({i \in 1..Len(ps) : Hit(i)})

\* The position find_map yields in unload_plugin, 0 for None.
plugin_index(ps, lib_path) ==
    LET Hit(i) == ps[i].lib_path = lib_path
    IN  first_index({i \in 1..Len(ps) : Hit(i)})

\* A variant of plugin_calls that asks for the applet before initializing.
plugin_calls_applet_first(id) ==
    << Call("_plugin_create", id), Call("_applet", id),
       Call("on_plugin_load", id), Call("_css_provider", id) >>

\* The calls load_plugin makes on the instance the constructor returns.
plugin_calls(id) ==
    << Call("_plugin_create", id), Call("on_plugin_load", id),
       Call("_applet", id), Call("_css_provider", id) >>

\* A variant of load_outcome in which a manager without a watcher cannot
\* register the directory and fails the load.
load_outcome_requiring_watcher(found, opened, has_watcher, watch_ok, has_ctor) ==
    IF ~found THEN "NotFound"
    ELSE IF ~opened THEN "OpenFailed"
    ELSE IF ~has_watcher \/ ~watch_ok THEN "WatchFailed"
    ELSE IF ~has_ctor THEN "SymbolMissing"
    ELSE "Ok"

\* The outcome of load_plugin up to and including the constructor lookup:
\* which `?` returns early, if any.
load_outcome(found, opened, has_watcher, watch_ok, has_ctor) ==
    IF ~found THEN "NotFound"
    ELSE IF ~opened THEN "OpenFailed"
    ELSE IF has_watcher /\ ~watch_ok THEN "WatchFailed"
    ELSE IF ~has_ctor THEN "SymbolMissing"
    ELSE "Ok"

\* PluginManager::load_plugin
load_plugin(name, watch_ok) ==
    LET r == get_ld_path(name, ld_library_path, fs, ldconfig)
        lib_path == r.path
        kind == IF lib_path \in DOMAIN fs THEN fs[lib_path] ELSE "absent"
        dir == parent(lib_path)
        id == nextId
        out == IF r.found /\ opens(kind) /\ watcher /\ loop_busy(cb)
               THEN "Blocked"
               ELSE load_outcome(r.found, opens(kind), watcher, watch_ok,
                                 has_constructor(kind))
        opened == << Ev("dlopen", "", 0, lib_path) >>
        closed == << Ev("dlclose", "", 0, lib_path) >>
        watch_ev == IF watcher THEN << Ev("watch", "", 0, dir) >> ELSE <<>>
        calls == plugin_calls(id)
    IN  /\ ~dropped
        /\ ctl = CtlIdle \/ ctl = Ctl("watch", name)
        /\ nextId <= MaxLoads
        /\ last' = Op("load", name, lib_path, out)
        /\ ctl' = IF out = "Blocked" THEN Ctl("watch", name) ELSE CtlIdle
        /\ UNCHANGED <<watcher, dropped, envVars, evVars>>
        /\ CASE out = "Blocked" ->
                  /\ trace' = opened
                  /\ UNCHANGED <<plugins, watched, watching, nextId, hist>>
             [] out = "NotFound" ->
                  /\ trace' = <<>>
                  /\ UNCHANGED <<plugins, watched, watching, nextId, hist>>
             [] out = "OpenFailed" ->
                  /\ trace' = <<>>
                  /\ UNCHANGED <<plugins, watched, watching, nextId, hist>>
             [] out = "WatchFailed" ->
                  /\ trace' = opened \o << Ev("watch_failed", "", 0, dir) >> \o closed
                  /\ UNCHANGED <<plugins, watched, watching, nextId, hist>>
             [] out = "SymbolMissing" ->
                  /\ watched' = IF watcher THEN watch(watched, dir) ELSE watched
                  /\ trace' = opened \o watch_ev \o closed
                  /\ UNCHANGED <<plugins, watching, nextId, hist>>
             [] out = "Ok" ->
                  /\ watched' = IF watcher THEN watch(watched, dir) ELSE watched
                  /\ plugins' = Append(plugins,
                        PluginLibrary(name, lib_path, id,
                            css_provider_or_default(plugin_css_provider(kind)),
                            applet_or_default(plugin_applet(kind))))
                  /\ watching' = Append(watching, <<name, lib_path>>)
                  /\ nextId' = nextId + 1
                  /\ hist' = Append(hist, << Ev("dlopen", "", id, lib_path) >> \o calls)
                  /\ trace' = << Ev("dlopen", "", id, lib_path) >> \o watch_ev \o calls

Load == \E name \in Names, watch_ok \in BOOLEAN : load_plugin(name, watch_ok)

UnloadArgs == Files \cup {DirO}

\* A variant of unload_plugin that also unwatches the directory of the
\* record it removes.
unload_plugin_unwatching(lib_path) ==
    LET i == plugin_index(plugins, lib_path)
    IN  /\ ~dropped
        /\ ctl = CtlIdle
        /\ UNCHANGED <<watcher, watching, dropped, envVars, nextId, ctl, evVars>>
        /\ IF i = 0
           THEN /\ last' = Op("unload", <<>>, lib_path, "absent")
                /\ trace' = <<>>
                /\ UNCHANGED <<plugins, hist, watched>>
           ELSE /\ last' = Op("unload", plugins[i].name, lib_path, "removed")
                /\ plugins' = remove(plugins, i)
                /\ watched' = unwatch(watched, parent(lib_path))
                /\ trace' = drop_plugin_library(plugins[i].id)
                /\ hist' = hist_after_drop(hist, << plugins[i] >>)

\* PluginManager::unload_plugin
unload_plugin(lib_path) ==
    LET i == plugin_index(plugins, lib_path)
    IN  /\ ~dropped
        /\ ctl = CtlIdle
        /\ UNCHANGED <<watcher, watched, watching, dropped, envVars, nextId,
                       ctl, evVars>>
        /\ IF i = 0
           THEN /\ last' = Op("unload", <<>>, lib_path, "absent")
                /\ trace' = <<>>
                /\ UNCHANGED <<plugins, hist>>
           ELSE /\ last' = Op("unload", plugins[i].name, lib_path, "removed")
                /\ plugins' = remove(plugins, i)
                /\ trace' = drop_plugin_library(plugins[i].id)
                /\ hist' = hist_after_drop(hist, << plugins[i] >>)

Unload == \E lib_path \in UnloadArgs : unload_plugin(lib_path)

\* PluginManager::unload_all
UnloadAll ==
    LET drops == IF ctl.pc = "unwatch" THEN trace ELSE drop_each(plugins)
        waits == watcher /\ watching # <<>> /\ loop_busy(cb)
    IN  /\ ~dropped
        /\ ctl.pc \in {"idle", "unwatch"}
        /\ plugins' = <<>>
        /\ hist' = hist_after_drop(hist, plugins)
        /\ last' = Op("unload_all", <<>>, <<>>, IF waits THEN "Blocked" ELSE "done")
        /\ ctl' = IF waits THEN Ctl("unwatch", <<>>) ELSE CtlIdle
        /\ IF watcher /\ ~waits
           THEN /\ watched' = unwatch_each(watched, watching)
                /\ watching' = <<>>
                /\ trace' = drops \o unwatch_events(watching)
           ELSE /\ trace' = drops
                /\ UNCHANGED <<watched, watching>>
        /\ UNCHANGED <<watcher, dropped, envVars, nextId, evVars>>

\* A variant of DropManager that forgets the records instead of dropping them.
DropManagerForgetting ==
    /\ ~dropped
    /\ ctl = CtlIdle
    /\ dropped' = TRUE
    /\ last' = Op("drop", <<>>, <<>>, "done")
    /\ plugins' = <<>>
    /\ trace' = <<>>
    /\ watcher' = FALSE
    /\ watched' = {}
    /\ watching' = <<>>
    /\ UNCHANGED <<envVars, nextId, hist, ctl, evVars>>

\* The PluginManager value goes out of scope: its fields are dropped in
\* declaration order (plugins, watcher, watching); there is no Drop impl.
DropManager ==
    /\ ~dropped
    /\ ctl = CtlIdle
    /\ dropped' = TRUE
    /\ last' = Op("drop", <<>>, <<>>, "done")
    /\ plugins' = <<>>
    /\ hist' = hist_after_drop(hist, plugins)
    /\ trace' = drop_each(plugins)
    /\ watcher' = FALSE
    /\ watched' = {}
    /\ watching' = <<>>
    /\ UNCHANGED <<envVars, nextId, ctl, evVars>>

Next == Load \/ Unload \/ UnloadAll \/ DropManager

Spec == Init /\ [][Next]_vars

-----------------------------------------------------------------------------
(* The watcher's thread, the channel and the consumer.                     *)

mgrVars == <<plugins, watcher, watched, watching, dropped, envVars, nextId,
             hist, trace, last, ctl>>

\* A variant of channel_push that gives up when the buffer is full.
channel_try_push(q, e) == IF Len(q) >= ChannelBuffer THEN q ELSE Append(q, e)

\* tx.send(res): the message is queued.
channel_push(q, e) == Append(q, e)

\* The callback async_watcher gives to INotifyWatcher::new, called with an
\* event of a watched directory: block_on(tx.send(res)). The message is
\* queued; when that fills the channel beyond its buffer the Sender's task is
\* parked and the send does not complete, so the thread stays in block_on.
Deliver(dir) ==
    LET e == [dir |-> dir, n |-> Len(reported) + 1]
        q == channel_push(chan, e)
        full == Len(q) > ChannelBuffer
    IN  /\ watcher
        /\ cb = CbIdle
        /\ Len(reported) < MaxEvents
        /\ reported' = Append(reported, e)
        /\ chan' = q
        /\ parked' = full
        /\ cb' = IF full THEN [state |-> "blocked", ev |-> e] ELSE CbIdle
        /\ UNCHANGED <<mgrVars, receiver, received>>

Callback == \E dir \in watched : Deliver(dir)

\* The send completes once the Receiver has unparked the Sender's task:
\* block_on and the callback return.
CallbackReturn ==
    /\ cb.state = "blocked"
    /\ ~parked
    /\ cb' = CbIdle
    /\ UNCHANGED <<mgrVars, receiver, chan, parked, reported, received>>

\* The consumer takes the next message from the Receiver, which unparks the
\* Sender's task.
Receive ==
    /\ receiver
    /\ chan # <<>>
    /\ received' = Append(received, Head(chan))
    /\ chan' = Tail(chan)
    /\ parked' = FALSE
    /\ UNCHANGED <<mgrVars, receiver, cb, reported>>

\* A manager whose watcher was set up, in the environment with two
\* directories.
InitEvents ==
    /\ Init
    /\ watcher
    /\ ld_library_path = EnvTwoDirs.ld
    /\ fs = EnvTwoDirs.fs
    /\ ldconfig = EnvTwoDirs.cache

LoadWatched == nextId <= MaxLoadsWatched /\ Load

NextEvents ==
    \/ LoadWatched
    \/ Unload
    \/ UnloadAll
    \/ DropManager
    \/ Callback
    \/ CallbackReturn
    \/ Receive

SpecEvents == InitEvents /\ [][NextEvents]_vars

-----------------------------------------------------------------------------
(* The resolver on its own, over more environments.                        *)

ResolveLdPaths == { <<>>, <<DirO>>, <<DirU, DirO>>, <<DirO, DirU>> }

ResolveFs == [Files -> {"plugin", "absent"}]

ResolveCaches ==
    { <<>>,
      << CacheLine(NameX, FileUX) >>,
      << CacheLine(NameX, FileUX), CacheLine(NameA, FileOA) >>,
      << CacheLine(NameA, FileOA), CacheLine(NameX, FileUX) >>,
      << CacheLine(NameB, FileOB), CacheLine(NameB, FileUB) >>,
      << [lib |-> <<"l", "i", "b", "b", "_", "s", "o">>, path |-> FileUB] >> }

InitResolve ==
    /\ plugins = <<>>
    /\ watcher = FALSE
    /\ watched = {}
    /\ watching = <<>>
    /\ dropped = FALSE
    /\ ld_library_path \in ResolveLdPaths
    /\ fs \in ResolveFs
    /\ ldconfig \in ResolveCaches
    /\ nextId = 1
    /\ hist = <<>>
    /\ trace = <<>>
    /\ last = Op("new", <<>>, <<>>, "no watcher")
    /\ ctl = CtlIdle
    /\ receiver = FALSE
    /\ chan = <<>>
    /\ parked = FALSE
    /\ cb = CbIdle
    /\ reported = <<>>
    /\ received = <<>>

\* A call of get_ld_path(name)
Resolve ==
    \E name \in Names :
        LET r == get_ld_path(name, ld_library_path, fs, ldconfig)
        IN  /\ last' = Op("get_ld_path", name, r.path,
                          IF r.found THEN "Some" ELSE "None")
            /\ UNCHANGED <<plugins, watcher, watched, watching, dropped, envVars,
                           nextId, hist, trace, ctl, evVars>>

SpecResolve == InitResolve /\ [][Resolve]_vars

-----------------------------------------------------------------------------
(* Properties.                                                             *)

Range(s) == {s[i] : i \in 1..Len(s)}

\* Position of the first occurrence of event e in h, or 0.
Pos(h, e) ==
    LET Hit(i) == h[i] = e
    IN  first_index({i \in 1..Len(h) : Hit(i)})

\* Number of positions of s holding x.
Count(s, x) == Cardinality({i \in 1..Len(s) : s[i] = x})

Hook(id) == Call("on_plugin_unload", id)
Closed(id) == Pos(hist[id], DropField("loaded_library", id)) # 0

\* The releases of instance id that matter for the library: the hook and the
\* drops of the four resources, in the order they happened.
Teardown(id) ==
    LET Relevant(e) ==
            \/ e = Hook(id)
            \/ /\ e.ev = "drop"
               /\ e.field \in {"applet", "css_provider", "plugin", "loaded_library"}
    IN  SelectSeq(hist[id], Relevant)

\* C1: a library handle is closed only after the teardown hook of its plugin
\* has run and the applet, the css provider and the proxy made from it have
\* been dropped, and nothing is done with the instance once the library is
\* closed, whichever of unload, unload_all or the manager's drop tore it down.
C1_LibraryClosedLast ==
    \A id \in 1..Len(hist) :
        LET h == hist[id]
            close == Pos(h, DropField("loaded_library", id))
        IN  Closed(id) =>
              /\ \A e \in {Hook(id), DropField("applet", id),
                           DropField("css_provider", id), DropField("plugin", id)} :
                     Pos(h, e) # 0 /\ Pos(h, e) < close
              /\ close = Len(h)
              /\ id \notin Ids(plugins)

\* C1 witness: one record was torn down, its library closed, while another
\* record is still loaded.
C1_Witness ==
    /\ \E id \in 1..Len(hist) : Closed(id)
    /\ plugins # <<>>

\* C2: a record's teardown is, in this order: hook, applet released,
\* css_provider released, proxy released, library closed.
C2_TeardownOrder ==
    \A id \in 1..Len(hist) :
        Pos(hist[id], Hook(id)) # 0 =>
            Teardown(id) = << Hook(id), DropField("applet", id),
                              DropField("css_provider", id), DropField("plugin", id),
                              DropField("loaded_library", id) >>

\* C3: a load that fails because the name does not resolve, the library does
\* not open or the constructor symbol is missing leaves the records, the
\* watching list and the watcher's registered paths as they were.
C3_FailedLoadChangesNothing ==
    [][ (last'.op = "load"
         /\ last'.result \in {"NotFound", "OpenFailed", "SymbolMissing"})
        => (plugins' = plugins /\ watching' = watching /\ watched' = watched) ]_vars

\* C4: loading a name that resolves to the path of an existing record fails
\* with AlreadyLoaded and leaves the number of records unchanged.
C4_DuplicateLoadRejected ==
    [][ (last'.op = "load"
         /\ get_ld_path(last'.name, ld_library_path, fs, ldconfig).found
         /\ get_ld_path(last'.name, ld_library_path, fs, ldconfig).path
                \in Range(paths(plugins)))
        => (last'.result = "AlreadyLoaded" /\ Len(plugins') = Len(plugins)) ]_vars

\* C5: right after a successful load(name) that resolved to path p, paths()
\* holds p exactly once and library_path_to_name(p) is name.
C5_LoadedOnceUnderItsName ==
    (last.op = "load" /\ last.result = "Ok") =>
        /\ Count(paths(plugins), last.path) = 1
        /\ library_path_to_name(watching, last.path)
               = [found |-> TRUE, name |-> last.name]

\* C6: right after unload(p) of a loaded p, paths() does not hold p; and a
\* load of the same name that follows, whose resolution, open and constructor
\* lookup succeed, succeeds.
C6_UnloadThenReload ==
    [][ /\ (last'.op = "unload" /\ last'.result = "removed")
            => last'.path \notin Range(paths(plugins'))
        /\ (/\ last.op = "unload" /\ last.result = "removed"
            /\ last'.op = "load" /\ last'.name = last.name
            /\ last'.result \notin {"NotFound", "OpenFailed", "SymbolMissing"})
            => last'.result = "Ok" ]_vars

\* C7: right after unload_all() there are no records, the watching list is
\* empty and no path is registered with the watcher.
C7_UnloadAllLeavesNothing ==
    last.op = "unload_all" =>
        plugins = <<>> /\ watching = <<>> /\ watched = {}

\* C8: a record's path has at most one watching entry, every watching entry
\* belongs to a loaded record, and unload of a loaded path unwatches its
\* directory exactly once.
C8_WatchEntriesFollowRecords ==
    /\ \A i \in 1..Len(plugins) :
           Cardinality({k \in 1..Len(watching) :
                            watching[k][2] = plugins[i].lib_path}) <= 1
    /\ \A k \in 1..Len(watching) : watching[k][2] \in Range(paths(plugins))
    /\ (last.op = "unload" /\ last.result = "removed") =>
           Count(trace, Ev("unwatch", "", 0, parent(last.path))) = 1

\* C9: a load never returns the failure of the watch registration: when the
\* registration fails the load goes on and returns success.
C9_WatchFailureNotFatal ==
    last.op = "load" =>
        /\ last.result # "WatchFailed"
        /\ Pos(trace, Ev("watch_failed", "", 0, parent(last.path))) # 0
               => last.result = "Ok"

\* C10: unload of a path no record has changes neither the records nor the
\* watching list nor the watcher, calls no hook and closes no library.
C10_UnloadUnknownIsNoOp ==
    [][ (last'.op = "unload" /\ last'.path \notin Range(paths(plugins)))
        => /\ plugins' = plugins
           /\ watching' = watching
           /\ watched' = watched
           /\ hist' = hist
           /\ trace' = <<>> ]_vars

\* C10 witness: an unload that found no record while records were loaded.
C10_Witness ==
    /\ last.op = "unload"
    /\ last.result = "absent"
    /\ plugins # <<>>
    /\ last.path \notin Range(paths(plugins))

-----------------------------------------------------------------------------
(* Properties of teardown at destruction, of the handles, of construction
   without a watcher, of the resolver, of the calls on an instance, of the
   order of records, of event delivery, and of the lookups.                *)

TornDown(id) ==
    /\ Closed(id)
    /\ \A e \in {Hook(id), DropField("applet", id), DropField("css_provider", id),
                 DropField("plugin", id)} : Pos(hist[id], e) # 0

\* C11: once the manager is dropped every record it still held has gone
\* through its teardown and no library is open; and while a record is held
\* its library is open, every library without a record being closed.
C11_DropTearsDownEverything ==
    /\ dropped => plugins = <<>> /\ \A id \in 1..Len(hist) : TornDown(id)
    /\ \A id \in 1..Len(hist) : id \in Ids(plugins) <=> ~Closed(id)

\* C11 witness: the manager was dropped while it held records.
C11_Witness ==
    /\ dropped
    /\ last.op = "drop"
    /\ \E id \in 1..Len(hist) : Pos(trace, Hook(id)) # 0

\* C12: no record holds a null applet or a null css provider: a plugin that
\* returns null gets the default object, any other plugin its own.
C12_HandlesNeverNull ==
    \A i \in 1..Len(plugins) :
        LET kind == fs[plugins[i].lib_path]
        IN  /\ plugins[i].applet # "null"
            /\ plugins[i].css_provider # "null"
            /\ plugins[i].applet = IF applet_is_null(kind) THEN "default" ELSE "plugin"
            /\ plugins[i].css_provider
                   = IF css_is_null(kind) THEN "default" ELSE "plugin"

\* C12 witness: records hold a default applet and a default css provider.
C12_Witness ==
    /\ \E i \in 1..Len(plugins) : plugins[i].applet = "default"
    /\ \E i \in 1..Len(plugins) : plugins[i].css_provider = "default"

\* C13: a manager built without a watcher has no receiver either, and on it
\* every load whose name resolves, whose library opens and has the
\* constructor returns Ok and appends the record of that name and path.
C13_LoadsWithoutWatcher ==
    /\ [](last.op = "new" /\ ~watcher => ~receiver /\ plugins = <<>> /\ ~dropped)
    /\ [][ LET r == get_ld_path(last'.name, ld_library_path, fs, ldconfig)
           IN  (/\ ~watcher
                /\ last'.op = "load"
                /\ r.found
                /\ opens(fs[r.path])
                /\ has_constructor(fs[r.path]))
               => /\ last'.result = "Ok"
                  /\ Len(plugins') = Len(plugins) + 1
                  /\ SubSeq(plugins', 1, Len(plugins)) = plugins
                  /\ plugins'[Len(plugins')].name = last'.name
                  /\ plugins'[Len(plugins')].lib_path = r.path ]_vars

\* C13 witness: a load succeeded on a manager that never had a watcher.
C13_Witness ==
    /\ ~watcher
    /\ ~receiver
    /\ last.op = "load"
    /\ last.result = "Ok"

\* The reference resolution of C14: the first directory of the search path
\* holding the file name, else the first cache line for that file name.
resolve_reference(lib_name, dirs, files, cache) ==
    LET filename == library_filename(lib_name)
        d == first_index({i \in 1..Len(dirs) : exists(push(dirs[i], filename), files)})
        c == first_index({i \in 1..Len(cache) : cache[i].lib = filename})
    IN  IF d # 0 THEN Found(push(dirs[d], filename))
        ELSE IF c # 0 THEN Found(cache[c].path)
        ELSE NotFound

\* C14: get_ld_path returns what the reference resolution returns, for every
\* search path, directory contents and cache listing.
C14_ResolveMatchesReference ==
    last.op = "get_ld_path" =>
        [found |-> last.result = "Some", path |-> last.path]
            = resolve_reference(last.name, ld_library_path, fs, ldconfig)

\* The calls of C15 on a loaded instance, in the order the claim gives.
plugin_calls_ref(id) ==
    << Call("_plugin_create", id), Call("on_plugin_load", id),
       Call("_applet", id), Call("_css_provider", id) >>

CallNames ==
    {"_plugin_create", "on_plugin_load", "_applet", "_css_provider",
     "on_plugin_unload"}

CallsOn(id) ==
    LET IsCall(e) == e.ev \in CallNames
    IN  SelectSeq(hist[id], IsCall)

\* C15: on every instance the calls are construct, initialize, produce
\* visual, produce style, each once and in this order, followed by the
\* teardown hook exactly once when the instance has been torn down and not at
\* all while it is loaded; the hook comes before every release and no call
\* follows it.
C15_CallsOncePerInstance ==
    \A id \in 1..Len(hist) :
        /\ CallsOn(id) = IF id \in Ids(plugins)
                         THEN plugin_calls_ref(id)
                         ELSE Append(plugin_calls_ref(id), Hook(id))
        /\ \A k \in 1..Len(hist[id]) :
               hist[id][k].ev = "drop" =>
                   Pos(hist[id], Hook(id)) # 0 /\ Pos(hist[id], Hook(id)) < k

\* C15 witness: one instance was torn down while another is loaded.
C15_Witness ==
    /\ \E id \in 1..Len(hist) : id \notin Ids(plugins) /\ Pos(hist[id], Hook(id)) # 0
    /\ \E id \in 1..Len(hist) : id \in Ids(plugins)

\* C16: the records are in the order their loads succeeded, with the paths
\* those loads resolved; unload_all runs the teardowns in that order, and
\* every unwatch after the last teardown.
C16_LoadOrderKept ==
    /\ \A i, j \in 1..Len(plugins) : i < j => plugins[i].id < plugins[j].id
    /\ \A i \in 1..Len(plugins) :
           paths(plugins)[i] = hist[plugins[i].id][1].path
    /\ last.op = "unload_all" =>
           /\ \A k, l \in 1..Len(trace) :
                  (k < l /\ trace[k].ev = "on_plugin_unload"
                         /\ trace[l].ev = "on_plugin_unload")
                      => trace[k].id < trace[l].id
           /\ \A k, l \in 1..Len(trace) :
                  (trace[k].ev = "unwatch" /\ trace[l].ev # "unwatch") => l < k

\* C16 witness: unload_all tore down two records and then unwatched.
C16_Witness ==
    /\ last.op = "unload_all"
    /\ Cardinality({k \in 1..Len(trace) : trace[k].ev = "on_plugin_unload"}) >= 2
    /\ \E k \in 1..Len(trace) : trace[k].ev = "unwatch"

C18_LoaderNeverWaits ==
    ~(ctl.pc # "idle" /\ cb.state = "blocked" /\ parked)

\* C19: name lookup, paths() and applet lookup agree on every path.
C19_LookupsAgree ==
    \A p \in UnloadArgs :
        /\ library_path_to_name(watching, p).found <=> p \in Range(paths(plugins))
        /\ library_path_to_applet(plugins, p).found <=> p \in Range(paths(plugins))

\* C20: with a watcher, the directory of every loaded record is registered.
C20_LoadedDirectoriesWatched ==
    (watcher /\ ~dropped) =>
        \A i \in 1..Len(plugins) : parent(plugins[i].lib_path) \in watched

\* C20 witness: one of two plugins of a directory was unloaded, the other is
\* still loaded, on a manager with a watcher.
C20_Witness ==
    /\ watcher
    /\ last.op = "unload"
    /\ last.result = "removed"
    /\ \E i \in 1..Len(plugins) :
           /\ parent(plugins[i].lib_path) = parent(last.path)
           /\ plugins[i].lib_path # last.path

====
